---- MODULE Spec2Model ----
(***************************************************************************)
(* Model of packages/tools/src/eventListeners/mouse/mouseDownListener.ts:  *)
(* the listener that turns raw mousedown / mousemove / mouseup / dblclick  *)
(* events into MOUSE_DOWN, MOUSE_DOWN_ACTIVATE, MOUSE_DRAG, MOUSE_UP and   *)
(* MOUSE_CLICK, using a double click timeout and a click-prevention        *)
(* timeout.                                                                *)
(*                                                                         *)
(* Program state: state, doubleClickState, the browser's live timers, the  *)
(* registered DOM listeners.  Environment: the physically held buttons.    *)
(* History: the emitted events (log) and counters of the raw inputs.       *)
(* Points carry their canvas projection only; page, client and world are   *)
(* computed alongside by getMouseEventPoints and never read by a decision. *)
(***************************************************************************)
EXTENDS Integers, Sequences, FiniteSets, TLC

\* ---------------------------------------------------------------- bounds
\* Raw presses, raw moves and native dblclick notifications per behaviour.
MaxPress == 2
MaxMove == 1
MaxDbl == 2
\* Raw moves of a single gesture (SpecGesture).
MaxDrag == 2
\* Canvas coordinates range over 0..MaxCoord in x and in y.
MaxCoord == 2
\* Granularity of the clock, in ms: time advances to the next timer's due
\* time, or by Quantum if that is sooner.
Quantum == 100

\* ------------------------------------------------------- program constants
DOUBLE_CLICK_TOLERANCE_MS == 400
MULTI_BUTTON_TOLERANCE_MS == 150
DOUBLE_CLICK_DRAG_TOLERANCE == 3
clickDelay == 200

\* Button bits of MouseEvent.buttons: 1 is the primary button, 2 the secondary.
Buttons == {1, 2}
Points == (0..MaxCoord) \X (0..MaxCoord)
\* Only differences of points are ever read, so every gesture starts in the
\* same corner.
PressPoints == {<<0, 0>>}

\* Event names (enums/Events)
MOUSE_DOWN == "MOUSE_DOWN"
MOUSE_DOWN_ACTIVATE == "MOUSE_DOWN_ACTIVATE"
MOUSE_CLICK == "MOUSE_CLICK"
MOUSE_UP == "MOUSE_UP"
MOUSE_DRAG == "MOUSE_DRAG"

\* A raw MouseEvent: kind, serial number within its kind, MouseEvent.buttons,
\* canvas point (presses and moves) and, for a release, its time stamp in ms
\* since the last fresh press.  NoEvent stands for null.
NoEvent == [kind |-> "none", id |-> 0, buttons |-> 0, pt |-> <<0, 0>>, t |-> 0]
NoElement == "null"
TheElement == "element"

VARIABLES
    state,              \* IMouseDownListenerState
    doubleClickState,   \* IDoubleClickState
    timers,             \* live browser timers: records [id, kind, remaining]
    listeners,          \* registered DOM listeners
    log,                \* history: events given to triggerEvent, in order
    held,               \* environment: mask of the buttons physically down
    elapsed,            \* history: ms since the last fresh press (capped)
    count               \* history: raw inputs by kind, finalizes, blocked dblclicks

vars == <<state, doubleClickState, timers, listeners, log, held, elapsed, count>>

defaultState ==
    [mouseButton |-> 0, element |-> NoElement, isClickEvent |-> TRUE,
     preventClickTimeout |-> 0, startPoints |-> <<0, 0>>, lastPoints |-> <<0, 0>>]

\* The program's mutable state gathered in one record, so that the handlers
\* are operators from machine to machine that can call one another.
Machine ==
    [state |-> state, dcs |-> doubleClickState, timers |-> timers,
     listeners |-> listeners, log |-> log, nFinal |-> count.finalize,
     nBlocked |-> count.blocked]

\* ------------------------------------------------------------ browser timers
TimerIds(m) == {tm.id : tm \in m.timers}

\* setTimeout returns a handle no live timer and no stored handle uses.
NewTimerId(m) ==
    LET used == TimerIds(m) \cup {m.state.preventClickTimeout, m.dcs.doubleClickTimeout}
    IN  CHOOSE i \in 1..(Cardinality(used) + 1) :
            /\ i \notin used
            /\ \A j \in 1..(Cardinality(used) + 1) : j \notin used => i <= j

SetTimeout(m, id, kind, ms) ==
    [m EXCEPT !.timers = @ \cup {[id |-> id, kind |-> kind, remaining |-> ms]}]

\* clearTimeout(handle): a null or stale handle clears nothing.
ClearTimeout(m, handle) ==
    [m EXCEPT !.timers = {tm \in @ : tm.id # handle}]

\* ------------------------------------------------------------------ helpers
Abs(x) == IF x < 0 THEN -x ELSE x

SubtractPoints2D(point0, point1) == <<point0[1] - point1[1], point0[2] - point1[2]>>

GetDeltaPoints(currentPoints, lastPoints) == SubtractPoints2D(currentPoints, lastPoints)

\* Only the world projection is recomputed; the canvas projection is kept.
UpdateMouseEventsLastPoints(lastPoints) == lastPoints

CopyPoints(points) == points

\* Faulty variant: only the horizontal component of the delta is measured.
IsDragPastHorizontalOnly(delta) == Abs(delta[1]) > DOUBLE_CLICK_DRAG_TOLERANCE

IsDragPastDoubleClickTolerance(delta) ==
    Abs(delta[1]) + Abs(delta[2]) > DOUBLE_CLICK_DRAG_TOLERANCE

\* Faulty variant: every press gets the double click tolerance.
DoubleClickDelayUniform(buttons) == DOUBLE_CLICK_TOLERANCE_MS

\* The delay the double click timeout is armed with (mouseDownListener).
DoubleClickDelay(buttons) ==
    IF buttons = 1 THEN DOUBLE_CLICK_TOLERANCE_MS ELSE MULTI_BUTTON_TOLERANCE_MS

\* Faulty variant: every mouse up is named a click.
ClickEventNameAlways(isClickEvent) == MOUSE_CLICK

ClickEventName(isClickEvent) == IF isClickEvent THEN MOUSE_CLICK ELSE MOUSE_UP

\* triggerEvent(element, name, detail): the event is appended to the log with
\* the serial number and time stamp of its source event, the button of the
\* detail and what the dispatch returned.
TriggerEvent(m, name, evt, notConsumed) ==
    [m EXCEPT !.log = Append(@, [name |-> name, event |-> evt.id, t |-> evt.t,
                                 button |-> m.state.mouseButton,
                                 notConsumed |-> notConsumed])]

\* ----------------------------------------------------------------- handlers
\* Faulty variant: the timeout is cleared and the buffered events are kept.
ClearTimeoutKeepEvents(m) ==
    IF m.dcs.doubleClickTimeout # 0
    THEN [ClearTimeout(m, m.dcs.doubleClickTimeout) EXCEPT !.dcs.doubleClickTimeout = 0]
    ELSE m

\* Faulty variant: the handle is dropped without clearTimeout, so the timer stays live.
ClearEventsKeepTimer(m) ==
    [m EXCEPT !.dcs.doubleClickTimeout = 0, !.dcs.mouseDownEvent = NoEvent,
              !.dcs.mouseUpEvent = NoEvent]

ClearDoubleClickTimeoutAndEvents(m) ==
    LET m1 == IF m.dcs.doubleClickTimeout # 0
              THEN [ClearTimeout(m, m.dcs.doubleClickTimeout)
                        EXCEPT !.dcs.doubleClickTimeout = 0]
              ELSE m
    IN  [m1 EXCEPT !.dcs.mouseDownEvent = NoEvent, !.dcs.mouseUpEvent = NoEvent]

\* Faulty variant: the element's _onMouseMove listener is not removed.
CleanUpKeepMove(m) ==
    LET hasElement == m.state.element # NoElement
        m1 == [m EXCEPT !.listeners.docMouseUp = FALSE,
                        !.listeners.elMouseMove = IF hasElement THEN TRUE ELSE @]
        m2 == ClearDoubleClickTimeoutAndEvents(m1)
    IN  [m2 EXCEPT !.state = defaultState]

\* Faulty variant: the global mousemove listener is not restored.
CleanUpNoRestore(m) ==
    LET hasElement == m.state.element # NoElement
        m1 == [m EXCEPT !.listeners.docMouseUp = FALSE,
                        !.listeners.elOnMouseMove = IF hasElement THEN FALSE ELSE @]
        m2 == ClearDoubleClickTimeoutAndEvents(m1)
    IN  [m2 EXCEPT !.state = defaultState]

CleanUp(m) ==
    LET hasElement == m.state.element # NoElement
        m1 == [m EXCEPT !.listeners.docMouseUp = FALSE,
                        !.listeners.elOnMouseMove = IF hasElement THEN FALSE ELSE @,
                        !.listeners.elMouseMove = IF hasElement THEN TRUE ELSE @]
        m2 == ClearDoubleClickTimeoutAndEvents(m1)
    IN  [m2 EXCEPT !.state = defaultState]

\* Faulty variant: MOUSE_DOWN_ACTIVATE follows whatever the dispatch returned.
DoMouseDownAlwaysActivate(m, evt, notConsumed) ==
    LET m1 == [m EXCEPT !.state.lastPoints = CopyPoints(m.state.startPoints)]
        m2 == TriggerEvent(m1, MOUSE_DOWN, evt, notConsumed)
    IN  TriggerEvent(m2, MOUSE_DOWN_ACTIVATE, evt, TRUE)

DoMouseDown(m, evt, notConsumed) ==
    LET m1 == [m EXCEPT !.state.lastPoints = CopyPoints(m.state.startPoints)]
        m2 == TriggerEvent(m1, MOUSE_DOWN, evt, notConsumed)
    IN  IF notConsumed THEN TriggerEvent(m2, MOUSE_DOWN_ACTIVATE, evt, TRUE) ELSE m2

\* Faulty variant: a second mouse up during the double click timeout replaces
\* the buffered one instead of ending the double click.
OnMouseUpKeepSecond(m, evt) ==
    LET m1 == ClearTimeout(m, m.state.preventClickTimeout)
        m2 == IF m1.dcs.doubleClickTimeout # 0
              THEN [m1 EXCEPT !.dcs.mouseUpEvent = evt,
                              !.listeners.elOnMouseMove = TRUE]
              ELSE CleanUp(TriggerEvent(m1, ClickEventName(m1.state.isClickEvent),
                                        evt, TRUE))
    IN  [m2 EXCEPT !.listeners.docOnMouseDrag = FALSE]

OnMouseUp(m, evt) ==
    LET m1 == ClearTimeout(m, m.state.preventClickTimeout)
        m2 == IF m1.dcs.doubleClickTimeout # 0
              THEN IF m1.dcs.mouseUpEvent = NoEvent
                   THEN [m1 EXCEPT !.dcs.mouseUpEvent = evt,
                                   !.listeners.elOnMouseMove = TRUE]
                   ELSE CleanUp(m1)
              ELSE CleanUp(TriggerEvent(m1, ClickEventName(m1.state.isClickEvent),
                                        evt, TRUE))
    IN  [m2 EXCEPT !.listeners.docOnMouseDrag = FALSE]

\* Faulty variant: the double click timeout and events are not cleared.
DoStateMouseDownAndUpNoClear(m, notConsumed) ==
    LET m1 == [m EXCEPT !.dcs.ignoreDoubleClick = TRUE, !.nFinal = @ + 1]
        mouseDownEvent == m.dcs.mouseDownEvent
        mouseUpEvent == m.dcs.mouseUpEvent
        m3 == DoMouseDown(m1, mouseDownEvent, notConsumed)
    IN  IF mouseUpEvent # NoEvent THEN OnMouseUp(m3, mouseUpEvent) ELSE m3

\* Faulty variant: the ignoreDoubleClick flag is not set.
DoStateMouseDownAndUpNoFlag(m, notConsumed) ==
    LET m1 == [m EXCEPT !.nFinal = @ + 1]
        mouseDownEvent == m.dcs.mouseDownEvent
        mouseUpEvent == m.dcs.mouseUpEvent
        m2 == ClearDoubleClickTimeoutAndEvents(m1)
        m3 == DoMouseDown(m2, mouseDownEvent, notConsumed)
    IN  IF mouseUpEvent # NoEvent THEN OnMouseUp(m3, mouseUpEvent) ELSE m3

DoStateMouseDownAndUp(m, notConsumed) ==
    LET m1 == [m EXCEPT !.dcs.ignoreDoubleClick = TRUE, !.nFinal = @ + 1]
        mouseDownEvent == m.dcs.mouseDownEvent
        mouseUpEvent == m.dcs.mouseUpEvent
        m2 == ClearDoubleClickTimeoutAndEvents(m1)
        m3 == DoMouseDown(m2, mouseDownEvent, notConsumed)
    IN  IF mouseUpEvent # NoEvent THEN OnMouseUp(m3, mouseUpEvent) ELSE m3

\* Faulty variant: the click-prevention callback does nothing.
PreventClickHandlerIdle(m) == m

PreventClickHandler(m) == [m EXCEPT !.state.isClickEvent = FALSE]

\* mouseDownListener when no double click timeout is running: the first
\* mouse down of a potential double click.
FreshMouseDown(m, evt) ==
    LET id1 == NewTimerId(m)
        m1 == [SetTimeout(m, id1, "doubleClick", DoubleClickDelay(evt.buttons))
                   EXCEPT !.dcs.doubleClickTimeout = id1,
                          !.dcs.mouseDownEvent = evt,
                          !.dcs.ignoreDoubleClick = FALSE,
                          !.state.element = TheElement,
                          !.state.mouseButton = evt.buttons]
        id2 == NewTimerId(m1)
    IN  [SetTimeout(m1, id2, "preventClick", clickDelay)
             EXCEPT !.state.preventClickTimeout = id2,
                    !.listeners.elMouseMove = FALSE,
                    !.state.startPoints = CopyPoints(evt.pt),
                    !.state.lastPoints = CopyPoints(evt.pt),
                    !.listeners.docMouseUp = TRUE,
                    !.listeners.docOnMouseDrag = TRUE]

\* Faulty variant: the changed button event is not recorded as the initial
\* button down state.
MouseDownListenerKeepFirst(m, evt, notConsumed) ==
    IF m.dcs.doubleClickTimeout # 0
    THEN IF evt.buttons = m.dcs.mouseDownEvent.buttons
         THEN m
         ELSE DoStateMouseDownAndUp(m, notConsumed)
    ELSE FreshMouseDown(m, evt)

\* Faulty variant: a press that repeats the buffered button mask is not ignored.
MouseDownListenerNoIgnore(m, evt, notConsumed) ==
    IF m.dcs.doubleClickTimeout # 0
    THEN DoStateMouseDownAndUp([m EXCEPT !.dcs.mouseDownEvent = evt], notConsumed)
    ELSE FreshMouseDown(m, evt)

MouseDownListener(m, evt, notConsumed) ==
    IF m.dcs.doubleClickTimeout # 0
    THEN IF evt.buttons = m.dcs.mouseDownEvent.buttons
         THEN m
         ELSE DoStateMouseDownAndUp([m EXCEPT !.dcs.mouseDownEvent = evt], notConsumed)
    ELSE FreshMouseDown(m, evt)

\* Faulty variant: a move within the tolerance advances lastPoints.
OnMouseDragAdvance(m, evt, notConsumed) ==
    IF m.state.element = NoElement
    THEN m
    ELSE LET currentPoints == evt.pt
             lastPoints == UpdateMouseEventsLastPoints(m.state.lastPoints)
             deltaPoints == GetDeltaPoints(currentPoints, lastPoints)
             pending == m.dcs.doubleClickTimeout # 0
         IN  IF pending /\ ~IsDragPastDoubleClickTolerance(deltaPoints)
             THEN [m EXCEPT !.state.lastPoints = CopyPoints(currentPoints)]
             ELSE LET m1 == IF pending THEN DoStateMouseDownAndUp(m, notConsumed) ELSE m
                      m2 == TriggerEvent(m1, MOUSE_DRAG, evt, TRUE)
                  IN  [m2 EXCEPT !.state.lastPoints = CopyPoints(currentPoints)]

OnMouseDrag(m, evt, notConsumed) ==
    IF m.state.element = NoElement
    THEN m
    ELSE LET currentPoints == evt.pt
             lastPoints == UpdateMouseEventsLastPoints(m.state.lastPoints)
             deltaPoints == GetDeltaPoints(currentPoints, lastPoints)
             pending == m.dcs.doubleClickTimeout # 0
         IN  IF pending /\ ~IsDragPastDoubleClickTolerance(deltaPoints)
             THEN m
             ELSE LET m1 == IF pending THEN DoStateMouseDownAndUp(m, notConsumed) ELSE m
                      m2 == TriggerEvent(m1, MOUSE_DRAG, evt, TRUE)
                  IN  [m2 EXCEPT !.state.lastPoints = CopyPoints(currentPoints)]

\* The closing call of mouseMoveListener emits MOUSE_MOVE, which is no event
\* of this listener and touches none of its state.
OnMouseMove(m, evt, notConsumed) ==
    LET currentPoints == evt.pt
        lastPoints == UpdateMouseEventsLastPoints(m.state.lastPoints)
        deltaPoints == GetDeltaPoints(currentPoints, lastPoints)
    IN  IF ~IsDragPastDoubleClickTolerance(deltaPoints)
        THEN m
        ELSE DoStateMouseDownAndUp(m, notConsumed)

\* Faulty variant: the flag is not cleared when a notification is blocked.
MouseDoubleClickIgnoreListenerSticky(m) ==
    IF m.dcs.ignoreDoubleClick
    THEN [m EXCEPT !.nBlocked = @ + 1]
    ELSE CleanUp(m)

\* nBlocked counts the notifications stopped by stopImmediatePropagation and
\* preventDefault.
MouseDoubleClickIgnoreListener(m) ==
    IF m.dcs.ignoreDoubleClick
    THEN [m EXCEPT !.dcs.ignoreDoubleClick = FALSE, !.nBlocked = @ + 1]
    ELSE CleanUp(m)

Init ==
    /\ state = defaultState
    /\ doubleClickState = [doubleClickTimeout |-> 0, mouseDownEvent |-> NoEvent,
                           mouseUpEvent |-> NoEvent, ignoreDoubleClick |-> FALSE]
    /\ timers = {}
    /\ listeners = [elMouseMove |-> TRUE, elOnMouseMove |-> FALSE,
                    docMouseUp |-> FALSE, docOnMouseDrag |-> FALSE]
    /\ log = <<>>
    /\ held = 0
    /\ elapsed = 0
    /\ count = [press |-> 0, release |-> 0, move |-> 0, dbl |-> 0, finalize |-> 0,
                blocked |-> 0, reach |-> 0, ignored |-> 0, merged |-> 0,
                swallowed |-> 0, again |-> 0, last |-> 0]

IsHeld(b) == (held \div b) % 2 = 1

\* The handler's result becomes the next program state.
Apply(m) ==
    /\ state' = m.state
    /\ doubleClickState' = m.dcs
    /\ timers' = m.timers
    /\ listeners' = m.listeners
    /\ log' = m.log

ElapsedCap == DOUBLE_CLICK_TOLERANCE_MS + Quantum

\* How far a move reaches: 0 below the drag tolerance, 1 on it, 2 beyond it.
Reach(delta) ==
    LET d == Abs(delta[1]) + Abs(delta[2])
    IN  IF d > DOUBLE_CLICK_DRAG_TOLERANCE THEN 2
        ELSE IF d = DOUBLE_CLICK_DRAG_TOLERANCE THEN 1 ELSE 0

\* A button goes down over the element: 'mousedown' reaches mouseDownListener.
RawPress(b, pt, notConsumed) ==
    /\ ~IsHeld(b)
    /\ LET fresh == doubleClickState.doubleClickTimeout = 0
           evt == [kind |-> "press", id |-> count.press + 1, buttons |-> held + b,
                   pt |-> pt, t |-> 0]
           m == MouseDownListener(Machine, evt, notConsumed)
       IN  /\ Apply(m)
           /\ held' = held + b
           /\ elapsed' = IF fresh THEN 0 ELSE elapsed
           /\ count' = [count EXCEPT
                           !.press = @ + 1, !.finalize = m.nFinal,
                           !.ignored = IF ~fresh /\ held + b = doubleClickState.mouseDownEvent.buttons
                                       THEN @ + 1 ELSE @,
                           !.merged = IF ~fresh /\ held + b # doubleClickState.mouseDownEvent.buttons
                                      THEN @ + 1 ELSE @]

\* A button goes up: 'mouseup' reaches _onMouseUp if it is registered on the
\* document, and nobody otherwise.
RawRelease(b) ==
    /\ IsHeld(b)
    /\ LET evt == [kind |-> "release", id |-> count.release + 1, buttons |-> held - b,
                   pt |-> <<0, 0>>, t |-> elapsed]
           m == IF listeners.docMouseUp THEN OnMouseUp(Machine, evt) ELSE Machine
       IN  /\ Apply(m)
           /\ held' = held - b
           /\ count' = [count EXCEPT
                           !.release = @ + 1, !.finalize = m.nFinal,
                           !.swallowed = IF /\ listeners.docMouseUp
                                            /\ doubleClickState.doubleClickTimeout # 0
                                            /\ doubleClickState.mouseUpEvent # NoEvent
                                         THEN @ + 1 ELSE @]
    /\ UNCHANGED elapsed

\* The pointer moves over the element: 'mousemove' is dispatched to the
\* element's listeners and then to the document's.
RawMove(pt, notConsumed) ==
    /\ listeners.elOnMouseMove \/ listeners.docOnMouseDrag
    /\ LET evt == [kind |-> "move", id |-> count.move + 1, buttons |-> held,
                   pt |-> pt, t |-> 0]
           m1 == IF listeners.elOnMouseMove
                 THEN OnMouseMove(Machine, evt, notConsumed) ELSE Machine
           m2 == IF listeners.docOnMouseDrag /\ m1.listeners.docOnMouseDrag
                 THEN OnMouseDrag(m1, evt, notConsumed) ELSE m1
           reach == Reach(GetDeltaPoints(pt, state.lastPoints))
       IN  /\ Apply(m2)
           /\ count' = [count EXCEPT !.move = @ + 1, !.finalize = m2.nFinal,
                                     !.reach = IF reach > @ THEN reach ELSE @,
                                     !.last = reach]
    /\ UNCHANGED <<held, elapsed>>

\* The browser's 'dblclick' reaches mouseDoubleClickIgnoreListener; it is
\* blocked (stopImmediatePropagation, preventDefault) in the listener's first
\* branch.
RawDblClick ==
    /\ LET m == MouseDoubleClickIgnoreListener(Machine)
       IN  /\ Apply(m)
           /\ count' = [count EXCEPT !.dbl = @ + 1, !.blocked = m.nBlocked]
    /\ UNCHANGED <<held, elapsed>>

\* A due timer runs its callback; of the due timers the earliest runs first.
TimerFire(tm, notConsumed) ==
    /\ tm \in timers
    /\ tm.remaining <= 0
    /\ \A other \in timers : tm.remaining <= other.remaining
    /\ LET m0 == [Machine EXCEPT !.timers = @ \ {tm}]
           m == IF tm.kind = "doubleClick"
                THEN DoStateMouseDownAndUp(m0, notConsumed)
                ELSE PreventClickHandler(m0)
       IN  /\ Apply(m)
           /\ count' = [count EXCEPT !.finalize = m.nFinal]
    /\ UNCHANGED <<held, elapsed>>

\* Time passes up to the next timer's due time, by one quantum at most, and it
\* cannot pass a due timer.  Time is followed while a timer is live or a
\* release is awaited: nothing reads it otherwise.
Step ==
    LET soonest == CHOOSE r \in {tm.remaining : tm \in timers} :
                       \A tm \in timers : r <= tm.remaining
    IN  IF timers # {} /\ soonest < Quantum THEN soonest ELSE Quantum

Tick ==
    /\ \A tm \in timers : tm.remaining > 0
    /\ timers # {} \/ (elapsed < ElapsedCap /\ listeners.docMouseUp)
    /\ timers' = {[tm EXCEPT !.remaining = @ - Step] : tm \in timers}
    /\ elapsed' = IF elapsed + Step > ElapsedCap THEN ElapsedCap ELSE elapsed + Step
    /\ UNCHANGED <<state, doubleClickState, listeners, log, held, count>>

\* Any raw inputs, in any order and at any time.
Next ==
    \/ count.press < MaxPress
        /\ \E b \in Buttons, pt \in PressPoints, nc \in BOOLEAN : RawPress(b, pt, nc)
    \/ \E b \in Buttons : RawRelease(b)
    \/ count.move < MaxMove
        /\ \E pt \in Points, nc \in BOOLEAN : RawMove(pt, nc)
    \/ count.dbl < MaxDbl /\ RawDblClick
    \/ \E tm \in timers, nc \in BOOLEAN : TimerFire(tm, nc)
    \/ Tick

Spec == Init /\ [][Next]_vars

\* One gesture of one button from the idle state: a press, moves while the
\* button is down, a release.
NextGesture ==
    \/ count.press = 0
        /\ \E b \in Buttons, pt \in PressPoints, nc \in BOOLEAN : RawPress(b, pt, nc)
    \/ \E b \in Buttons : RawRelease(b)
    \/ count.move < MaxDrag /\ held # 0
        /\ \E pt \in Points, nc \in BOOLEAN : RawMove(pt, nc)
    \/ \E tm \in timers, nc \in BOOLEAN : TimerFire(tm, nc)
    \/ Tick

SpecGesture == Init /\ [][NextGesture]_vars

\* Presses and releases of the primary button alone, and the native dblclick
\* that the browser sends after a second release.
NextDouble ==
    \/ count.press < MaxPress
        /\ \E pt \in PressPoints, nc \in BOOLEAN : RawPress(1, pt, nc)
    \/ RawRelease(1)
    \/ count.dbl < MaxDbl /\ count.release >= 2 /\ RawDblClick
    \/ \E tm \in timers, nc \in BOOLEAN : TimerFire(tm, nc)
    \/ Tick

SpecDouble == Init /\ [][NextDouble]_vars

\* The browser lets time pass and runs every due timer callback.
FireDue == \E tm \in timers, nc \in BOOLEAN : TimerFire(tm, nc)

SpecFair == Init /\ [][Next]_vars /\ WF_vars(Tick) /\ WF_vars(FireDue)

\* One press, its release, and moves both while the button is down and after
\* it is up.
NextJitter ==
    \/ count.press = 0
        /\ \E b \in Buttons, pt \in PressPoints, nc \in BOOLEAN : RawPress(b, pt, nc)
    \/ \E b \in Buttons : RawRelease(b)
    \/ count.move < MaxDrag
        /\ \E pt \in Points, nc \in BOOLEAN : RawMove(pt, nc)
    \/ \E tm \in timers, nc \in BOOLEAN : TimerFire(tm, nc)
    \/ Tick

SpecJitter == Init /\ [][NextJitter]_vars

\* _doStateMouseDownAndUp called once more for a press that is already
\* finalized and still held: no caller does this.  With a null state.element
\* the call would throw inside triggerEvent, so it is made with the element set.
Reinvoke(notConsumed) ==
    /\ doubleClickState.doubleClickTimeout = 0
    /\ doubleClickState.ignoreDoubleClick
    /\ state.element # NoElement
    /\ LET m == DoStateMouseDownAndUp(Machine, notConsumed)
       IN  /\ Apply(m)
           /\ count' = [count EXCEPT !.again = @ + 1, !.finalize = m.nFinal]
    /\ UNCHANGED <<held, elapsed>>

NextReinvoke ==
    \/ Next
    \/ count.again = 0 /\ \E nc \in BOOLEAN : Reinvoke(nc)

SpecReinvoke == Init /\ [][NextReinvoke]_vars

\* ------------------------------------------------------------------- claims
Count(name) == Cardinality({i \in DOMAIN log : log[i].name = name})

Names == [i \in DOMAIN log |-> log[i].name]

LastEvent == log[Len(log)]

ClickOrUp == {MOUSE_CLICK, MOUSE_UP}

\* In SpecGesture: the release has arrived and no decision is pending.
GestureDone == count.release = 1 /\ doubleClickState.doubleClickTimeout = 0

C2_Claim ==
    (/\ GestureDone
     /\ count.reach < 2
     /\ LastEvent.t > DoubleClickDelay(LastEvent.button)) =>
        /\ Count(MOUSE_CLICK) = 1
        /\ Count(MOUSE_DRAG) = 0
        /\ Count(MOUSE_UP) = 0

\* C2 amended: one press and one release of a single button, more than the
\* decision window apart, with no move between them, give one MOUSE_DOWN
\* (and MOUSE_DOWN_ACTIVATE if it was not consumed), no MOUSE_DRAG and exactly
\* one of MOUSE_UP and MOUSE_CLICK: MOUSE_UP if the release came after
\* clickDelay, which it always does for the primary button, and MOUSE_CLICK if
\* it came before.
C2_Release ==
    (/\ GestureDone
     /\ count.move = 0
     /\ LastEvent.t > DoubleClickDelay(LastEvent.button)) =>
        /\ \/ Names = <<MOUSE_DOWN, MOUSE_DOWN_ACTIVATE, LastEvent.name>>
           \/ Names = <<MOUSE_DOWN, LastEvent.name>>
        /\ LastEvent.name \in ClickOrUp
        /\ LastEvent.t > clickDelay => LastEvent.name = MOUSE_UP
        /\ LastEvent.t < clickDelay => LastEvent.name = MOUSE_CLICK
        /\ LastEvent.button = 1 => LastEvent.name = MOUSE_UP

C2_Witness ==
    /\ GestureDone
    /\ count.move = 0
    /\ LastEvent.button = 1
    /\ LastEvent.t > DoubleClickDelay(LastEvent.button)
    /\ LastEvent.name = MOUSE_UP

\* ---- C3
\* C3 (as stated): after press, release, press, release with one button mask,
\* the second press arriving while the decision of the first is pending, no
\* click or release has been emitted for either pair, the suppression flag was
\* set exactly once, and a double-click notification that followed was blocked.
C3_Claim ==
    (count.press = 2 /\ count.release = 2 /\ count.ignored = 1 /\ count.dbl >= 1)
        => /\ Count(MOUSE_CLICK) = 0 /\ Count(MOUSE_UP) = 0
           /\ count.finalize = 1
           /\ count.blocked >= 1

\* C3 (amended): when the second press and the second release both arrive while
\* the decision timer of the first press is armed, nothing at all is emitted,
\* no finalize takes place, the flag is never set, no notification is blocked
\* and the listener is back in its default state.
C3_Double ==
    (count.press = 2 /\ count.release = 2 /\ count.ignored = 1 /\ count.swallowed = 1)
        => /\ log = <<>>
           /\ count.finalize = 0
           /\ count.blocked = 0
           /\ ~doubleClickState.ignoreDoubleClick
           /\ doubleClickState.doubleClickTimeout = 0
           /\ doubleClickState.mouseDownEvent = NoEvent
           /\ doubleClickState.mouseUpEvent = NoEvent
           /\ state = defaultState

C3_Witness ==
    /\ count.press = 2 /\ count.release = 2
    /\ count.ignored = 1 /\ count.swallowed = 1
    /\ count.dbl = 1 /\ state = defaultState

\* ---- C4
\* The step in which a press with another button mask arrives while the
\* decision timer of an earlier press is armed.
DifferingPress ==
    /\ count.press' = count.press + 1
    /\ doubleClickState.doubleClickTimeout # 0
    /\ held' # doubleClickState.mouseDownEvent.buttons

NewNames == SubSeq(Names', Len(log) + 1, Len(log'))

\* C4 (as stated): a press with a different button mask during an armed
\* decision timer finalizes the first press at once (press, then click or
\* release if its release was buffered) and is itself tracked as a gesture of
\* its own: its later raw release is observed.
C4_Claim ==
    [][DifferingPress
         => /\ count.finalize' = count.finalize + 1
            /\ Len(NewNames) >= 1 /\ NewNames[1] = MOUSE_DOWN
            /\ (doubleClickState.mouseUpEvent # NoEvent
                  => NewNames[Len(NewNames)] \in ClickOrUp)
            /\ listeners'.docMouseUp]_vars

\* C4 (amended): a press with a different button mask during an armed
\* decision timer finalizes inside the press handler: press is emitted with the
\* new press as its source and the first press's button mask, press-activate
\* iff it was not consumed, the timer is disarmed and no timer is armed for the
\* new press.  If a release was buffered it is emitted as click or release and
\* the listener returns to its default state, so the new press is not tracked
\* and its release is not observed; otherwise the gesture of the first press
\* continues with its listeners and button mask.
C4_Merge ==
    [][DifferingPress
         => LET down == log'[Len(log) + 1]
                last == log'[Len(log')]
                head == IF down.notConsumed THEN <<MOUSE_DOWN, MOUSE_DOWN_ACTIVATE>>
                        ELSE <<MOUSE_DOWN>>
            IN  /\ count.finalize' = count.finalize + 1
                /\ Len(NewNames) >= 1
                /\ down.name = MOUSE_DOWN
                /\ down.event = count.press'
                /\ down.button = state.mouseButton
                /\ down.button # held'
                /\ doubleClickState'.doubleClickTimeout = 0
                /\ \A tm \in timers' : tm \in timers
                /\ IF doubleClickState.mouseUpEvent # NoEvent
                   THEN /\ NewNames = head \o <<last.name>>
                        /\ last.name \in ClickOrUp
                        /\ last.event = doubleClickState.mouseUpEvent.id
                        /\ state' = defaultState
                        /\ ~listeners'.docMouseUp
                   ELSE /\ NewNames = head
                        /\ listeners' = listeners
                        /\ state'.mouseButton = state.mouseButton
                        /\ state'.element = state.element]_vars

\* The new press went untracked: its button is held and nothing listens for
\* its release.
C4_Witness ==
    /\ count.merged = 1
    /\ count.release = 1
    /\ Count(MOUSE_DOWN) = 1
    /\ Count(MOUSE_CLICK) = 1
    /\ held # 0
    /\ ~listeners.docMouseUp
    /\ state = defaultState

\* ---- C5
\* The step in which the decision timer expires with a press and a release
\* both buffered.
ExpiryWithBoth ==
    /\ count.finalize' = count.finalize + 1
    /\ count.press' = count.press
    /\ count.move' = count.move
    /\ doubleClickState.mouseUpEvent # NoEvent

\* C5 (as stated): the expiry with press and release buffered emits press,
\* press-activate, release, in that order and nothing else.
C5_Claim ==
    [][ExpiryWithBoth => NewNames = <<MOUSE_DOWN, MOUSE_DOWN_ACTIVATE, MOUSE_UP>>]_vars

\* C5 (amended): the expiry with press and release buffered emits press, then
\* press-activate iff the press was not consumed, then one event for the
\* release: click if the release arrived before clickDelay, release if it
\* arrived after; and nothing else.
C5_Replay ==
    [][ExpiryWithBoth
         => LET last == log'[Len(log')]
                down == log'[Len(log) + 1]
            IN  /\ Len(NewNames) >= 2
                /\ down.name = MOUSE_DOWN
                /\ down.event = doubleClickState.mouseDownEvent.id
                /\ NewNames = IF down.notConsumed
                              THEN <<MOUSE_DOWN, MOUSE_DOWN_ACTIVATE, last.name>>
                              ELSE <<MOUSE_DOWN, last.name>>
                /\ last.name \in ClickOrUp
                /\ last.event = doubleClickState.mouseUpEvent.id
                /\ (last.t < clickDelay => last.name = MOUSE_CLICK)
                /\ (last.t > clickDelay => last.name = MOUSE_UP)]_vars

C5_Witness ==
    /\ Names = <<MOUSE_DOWN, MOUSE_DOWN_ACTIVATE, MOUSE_CLICK>>
    /\ count.move = 0
    /\ LastEvent.button = 1
    /\ LastEvent.t < clickDelay

\* ---- C6
\* C6: a raw release that arrives more than clickDelay after the press is
\* emitted as release, never as click, whether it is dispatched directly or
\* replayed from the buffer.
C6_Claim ==
    \A i \in DOMAIN log :
        (log[i].name \in ClickOrUp /\ log[i].t > clickDelay) => log[i].name = MOUSE_UP

\* A release replayed from the buffer: it arrived inside the decision window
\* and was emitted right after the press.
C6_Witness ==
    \E i \in DOMAIN log :
        /\ i > 1
        /\ log[i].name = MOUSE_UP
        /\ log[i].button = 1
        /\ log[i].t > clickDelay
        /\ log[i].t < DOUBLE_CLICK_TOLERANCE_MS
        /\ log[i - 1].name \in {MOUSE_DOWN, MOUSE_DOWN_ACTIVATE}

Sources(names) == {log[i].event : i \in {j \in DOMAIN log : log[j].name \in names}}

\* C8: every raw press leads to at most one emitted press and at most one
\* press-activate, every raw release to at most one click or release: the
\* emitted events of a kind have distinct, existing source events.
C8_Claim ==
    /\ \A i \in DOMAIN log : log[i].event # 0
    /\ \A i, j \in DOMAIN log :
         (i < j /\ log[i].event = log[j].event)
            => /\ log[i].name # log[j].name
               /\ ~(log[i].name \in ClickOrUp /\ log[j].name \in ClickOrUp)
    /\ Count(MOUSE_DOWN) <= count.press
    /\ Count(MOUSE_DOWN_ACTIVATE) <= Count(MOUSE_DOWN)
    /\ Count(MOUSE_CLICK) + Count(MOUSE_UP) <= count.release

C8_Witness ==
    /\ Count(MOUSE_DOWN) = 2
    /\ Count(MOUSE_DOWN_ACTIVATE) = 2
    /\ Count(MOUSE_CLICK) + Count(MOUSE_UP) = 2
    /\ count.move = 1

\* ---- C9
PressesAndEnds == SelectSeq(Names, LAMBDA n : n \in {MOUSE_DOWN, MOUSE_UP, MOUSE_CLICK})

\* C9 (as stated): once every button is released and nothing is pending, every
\* emitted press has been followed by exactly one click or release before
\* the press of a later gesture.
C9_Claim ==
    (held = 0 /\ doubleClickState.doubleClickTimeout = 0 /\ count.dbl = 0)
        => /\ Len(PressesAndEnds) % 2 = 0
           /\ \A i \in DOMAIN PressesAndEnds :
                IF i % 2 = 1 THEN PressesAndEnds[i] = MOUSE_DOWN
                ELSE PressesAndEnds[i] \in ClickOrUp

\* ---- C10
\* C10: a double-click notification that finds the suppression flag set clears
\* the flag, is blocked and changes nothing else; one that finds it clear is
\* not blocked; and only a finalize sets the flag.
C10_Claim ==
    [][/\ (count.dbl' = count.dbl + 1 /\ doubleClickState.ignoreDoubleClick)
            => /\ ~doubleClickState'.ignoreDoubleClick
               /\ count.blocked' = count.blocked + 1
               /\ doubleClickState' = [doubleClickState EXCEPT !.ignoreDoubleClick = FALSE]
               /\ UNCHANGED <<state, timers, listeners, log>>
       /\ (count.dbl' = count.dbl + 1 /\ ~doubleClickState.ignoreDoubleClick)
            => count.blocked' = count.blocked
       /\ (doubleClickState'.ignoreDoubleClick /\ ~doubleClickState.ignoreDoubleClick)
            => count.finalize' = count.finalize + 1]_vars

C10_Witness ==
    count.dbl = 2 /\ count.blocked = 1 /\ count.finalize = 1 /\ held # 0

\* ---- C11
\* The listeners of an idle engine: the baseline mousemove listener alone.
IdleListeners ==
    [elMouseMove |-> TRUE, elOnMouseMove |-> FALSE,
     docMouseUp |-> FALSE, docOnMouseDrag |-> FALSE]

\* C11 (as stated): a double-click notification that finds the suppression
\* flag clear leaves, in any state, the decision timer disarmed, the buffered
\* press and release null, every gesture-scoped listener and every gesture
\* timer inactive, the baseline move listener registered and the interaction
\* state equal to the default snapshot, and emits nothing.
C11_Claim ==
    [][(count.dbl' = count.dbl + 1 /\ ~doubleClickState.ignoreDoubleClick)
         => /\ doubleClickState'.doubleClickTimeout = 0
            /\ doubleClickState'.mouseDownEvent = NoEvent
            /\ doubleClickState'.mouseUpEvent = NoEvent
            /\ listeners' = IdleListeners
            /\ timers' = {}
            /\ state' = defaultState
            /\ log' = log]_vars

\* ---- C12
\* The step in which a press arrives while the decision timer is armed and
\* carries the button mask of the buffered press.
RepeatedPress ==
    /\ count.press' = count.press + 1
    /\ doubleClickState.doubleClickTimeout # 0
    /\ held' = doubleClickState.mouseDownEvent.buttons

\* C12: a press that repeats the buffered button mask while the decision timer
\* is armed emits nothing and changes nothing: timers, buffered press and
\* release, flag, interaction state and listeners are unchanged.
C12_Claim ==
    [][RepeatedPress
         => UNCHANGED <<state, doubleClickState, timers, listeners, log>>]_vars

\* A press was ignored and the decision it left alone is still pending, the
\* first release buffered.
C12_Witness ==
    /\ count.ignored = 1
    /\ count.press = 2
    /\ held # 0
    /\ doubleClickState.doubleClickTimeout # 0
    /\ doubleClickState.mouseDownEvent.id = 1
    /\ doubleClickState.mouseUpEvent # NoEvent

\* ---- C13
\* The step in which a release arrives while the decision timer is armed and a
\* release is already buffered.
SecondRelease ==
    /\ count.release' = count.release + 1
    /\ listeners.docMouseUp
    /\ doubleClickState.doubleClickTimeout # 0
    /\ doubleClickState.mouseUpEvent # NoEvent

\* The events emitted in a step have the event handled in the step or a
\* buffered event as their source.
SourcesAreCurrent ==
    \A i \in (Len(log) + 1)..Len(log') :
        LET e == log'[i]
        IN  /\ e.name \in {MOUSE_DOWN, MOUSE_DOWN_ACTIVATE}
                => \/ e.event = doubleClickState.mouseDownEvent.id
                   \/ count.press' > count.press /\ e.event = count.press'
            /\ e.name \in ClickOrUp
                => \/ e.event = doubleClickState.mouseUpEvent.id
                   \/ count.release' > count.release /\ e.event = count.release'

\* C13: a second release during an armed decision timer disarms the timer,
\* clears the buffered press and release, resets the interaction state and
\* emits nothing; and since events are only ever emitted for the event at hand
\* or a buffered one, nothing is emitted later for the press and the releases
\* dropped here.
C13_Claim ==
    [][/\ SecondRelease
            => /\ doubleClickState'.doubleClickTimeout = 0
               /\ \A tm \in timers' : tm.kind # "doubleClick"
               /\ doubleClickState'.mouseDownEvent = NoEvent
               /\ doubleClickState'.mouseUpEvent = NoEvent
               /\ state' = defaultState
               /\ log' = log
               /\ \A i \in DOMAIN log :
                    /\ log[i].name \in {MOUSE_DOWN, MOUSE_DOWN_ACTIVATE}
                         => log[i].event # doubleClickState.mouseDownEvent.id
                    /\ log[i].name \in ClickOrUp
                         => log[i].event # doubleClickState.mouseUpEvent.id
       /\ SourcesAreCurrent]_vars

\* A double click was swallowed: two presses and two releases have come and
\* gone and nothing was emitted.
C13_Witness ==
    /\ count.swallowed = 1
    /\ count.ignored = 1
    /\ count.dbl = 0
    /\ held = 0
    /\ log = <<>>
    /\ state = defaultState

\* ---- C14
\* C14: a press-activate is emitted exactly when the press emitted immediately
\* before it, for the same source event, was not consumed: every press-activate
\* directly follows such a press, and every unconsumed press is directly
\* followed by its press-activate.
C14_Claim ==
    \A i \in DOMAIN log :
        /\ log[i].name = MOUSE_DOWN_ACTIVATE
             => /\ i > 1
                /\ log[i - 1].name = MOUSE_DOWN
                /\ log[i - 1].notConsumed
                /\ log[i - 1].event = log[i].event
        /\ log[i].name = MOUSE_DOWN
             => (log[i].notConsumed
                   <=> (i < Len(log) /\ log[i + 1].name = MOUSE_DOWN_ACTIVATE))

\* A consumed press without press-activate and an unconsumed press with it.
C14_Witness ==
    /\ Count(MOUSE_DOWN) = 2
    /\ Count(MOUSE_DOWN_ACTIVATE) = 1
    /\ \E i \in DOMAIN log : log[i].name = MOUSE_DOWN /\ ~log[i].notConsumed

\* ---- C15
DecisionTimers == {tm \in timers : tm.kind = "doubleClick"}

\* C15: at most one decision timer is live, and a live decision timer is the
\* one whose handle doubleClickTimeout holds, so no superseded decision timer
\* can fire.
C15_Claim ==
    /\ Cardinality(DecisionTimers) <= 1
    /\ \A tm \in DecisionTimers : tm.id = doubleClickState.doubleClickTimeout
    /\ doubleClickState.doubleClickTimeout # 0 => DecisionTimers # {}

\* A decision timer armed for a second press after the first one was cleared.
C15_Witness ==
    /\ count.finalize = 1
    /\ count.press = 2
    /\ Cardinality(DecisionTimers) = 1
    /\ doubleClickState.mouseDownEvent.id = 2

\* ---- C16
PreventClickTimers == {tm \in timers : tm.kind = "preventClick"}

\* C16 (as stated, for runs without double-click notifications): at most two
\* timers are live, at most one decision timer and at most one
\* click-disqualification timer, the one whose handle preventClickTimeout
\* holds.
C16_Claim ==
    count.dbl = 0
        => /\ Cardinality(timers) <= 2
           /\ Cardinality(DecisionTimers) <= 1
           /\ Cardinality(PreventClickTimers) <= 1
           /\ \A tm \in PreventClickTimers : tm.id = state.preventClickTimeout

\* ---- C17
\* C17: between handlers the buffered press is non-null iff the decision timer
\* is armed, and the buffered release is non-null only if it is armed.
C17_Claim ==
    /\ doubleClickState.mouseDownEvent # NoEvent
          <=> doubleClickState.doubleClickTimeout # 0
    /\ doubleClickState.mouseUpEvent # NoEvent
          => doubleClickState.doubleClickTimeout # 0

\* Both directions have been exercised: a decision was finalized and cleared,
\* and another one is armed with press and release buffered.
C17_Witness ==
    /\ count.finalize = 1
    /\ doubleClickState.doubleClickTimeout # 0
    /\ doubleClickState.mouseDownEvent # NoEvent
    /\ doubleClickState.mouseUpEvent # NoEvent

\* ---- C18
\* The step in which a press arrives while no decision timer is armed.
FreshPress ==
    /\ count.press' = count.press + 1
    /\ doubleClickState.doubleClickTimeout = 0

\* The delay of the decision timer armed in the step.
ArmedDelay ==
    LET tm == CHOOSE t \in timers' : t.id = doubleClickState'.doubleClickTimeout
    IN  tm.remaining

\* C18 (as stated): a fresh press arms the decision timer with the
\* single-button window when one button is down, a non-primary one included,
\* and with the multi-button window only when several buttons are down.
C18_Claim ==
    [][FreshPress
         => /\ doubleClickState'.doubleClickTimeout # 0
            /\ ArmedDelay = IF held' \in Buttons THEN DOUBLE_CLICK_TOLERANCE_MS
                            ELSE MULTI_BUTTON_TOLERANCE_MS]_vars

\* C18 (amended): a fresh press arms the decision timer with the
\* single-button window only when the button mask is exactly the primary
\* button, and with the multi-button window for every other mask, a single
\* non-primary button included.
C18_Window ==
    [][FreshPress
         => /\ doubleClickState'.doubleClickTimeout # 0
            /\ \E tm \in timers' : /\ tm.id = doubleClickState'.doubleClickTimeout
                                   /\ tm.kind = "doubleClick"
            /\ ArmedDelay = IF held' = 1 THEN DOUBLE_CLICK_TOLERANCE_MS
                            ELSE MULTI_BUTTON_TOLERANCE_MS]_vars

\* The decision timer just armed for a single non-primary button.
C18_Witness ==
    /\ held = 2
    /\ state.mouseButton = 2
    /\ \E tm \in DecisionTimers : tm.remaining = MULTI_BUTTON_TOLERANCE_MS

\* ---- C19
\* The step in which a move arrives while a button is held and the decision
\* timer is armed.
HeldMoveWhileArmed ==
    /\ count.move' = count.move + 1
    /\ held # 0
    /\ doubleClickState.doubleClickTimeout # 0

\* The names a replayed press is emitted under.
PressNames(down) ==
    IF down.notConsumed THEN <<MOUSE_DOWN, MOUSE_DOWN_ACTIVATE>> ELSE <<MOUSE_DOWN>>

\* C19 (as stated): a move that arrives while a button is held and the
\* decision timer is armed finalizes in its handler (press, press-activate if
\* unconsumed) and then produces exactly one drag event when its L1 delta
\* exceeds the tolerance, and finalizes and emits nothing when it does not.
C19_Claim ==
    [][HeldMoveWhileArmed
         => IF count'.last = 2
            THEN /\ count.finalize' = count.finalize + 1
                 /\ Len(NewNames) >= 2
                 /\ NewNames = PressNames(log'[Len(log) + 1]) \o <<MOUSE_DRAG>>
            ELSE /\ count.finalize' = count.finalize
                 /\ log' = log]_vars

\* ---- C20
\* The step in which a release is handled while no decision timer is armed.
OrdinaryRelease ==
    /\ count.release' = count.release + 1
    /\ listeners.docMouseUp
    /\ doubleClickState.doubleClickTimeout = 0

\* C20: an ordinary release emits exactly one click or release, for that raw
\* release, and leaves the engine idle: gesture listeners removed, baseline
\* move listener registered, buffered press and release null, interaction
\* state equal to the default snapshot.
C20_Claim ==
    [][OrdinaryRelease
         => /\ Len(NewNames) = 1
            /\ NewNames[1] \in ClickOrUp
            /\ log'[Len(log')].event = count.release'
            /\ listeners' = IdleListeners
            /\ doubleClickState'.doubleClickTimeout = 0
            /\ doubleClickState'.mouseDownEvent = NoEvent
            /\ doubleClickState'.mouseUpEvent = NoEvent
            /\ state' = defaultState]_vars

\* A drag ended by an ordinary release.
C20_Witness ==
    /\ count.press = 1
    /\ count.release = 1
    /\ count.reach = 2
    /\ held = 0
    /\ Names = <<MOUSE_DOWN, MOUSE_DRAG, MOUSE_UP>>
    /\ listeners = IdleListeners
    /\ state = defaultState

\* ---- C21
\* C21 (as stated, for runs without double-click notifications): a press
\* accepted as a fresh gesture starts with isClickEvent true and with no
\* click-disqualification timer of an earlier press live, and every release
\* that arrived sooner than clickDelay after the fresh press is emitted as
\* click.
C21_Claim ==
    [][count.dbl = 0
         => /\ FreshPress
                 => /\ state'.isClickEvent
                    /\ \A tm \in timers' :
                         tm.kind = "preventClick" => tm.id = state'.preventClickTimeout
            /\ \A i \in DOMAIN log' :
                 (log'[i].name \in ClickOrUp /\ log'[i].t < clickDelay)
                     => log'[i].name = MOUSE_CLICK]_vars

\* ---- C22
\* C22 (as stated): when a press with a different button mask forces finalize,
\* the emitted press and press-activate carry the buffered first press as
\* their source event and the first press's button mask.
C22_Claim ==
    [][DifferingPress
         => \A i \in (Len(log) + 1)..Len(log') :
              log'[i].name \in {MOUSE_DOWN, MOUSE_DOWN_ACTIVATE}
                 => /\ log'[i].event = doubleClickState.mouseDownEvent.id
                    /\ log'[i].button = doubleClickState.mouseDownEvent.buttons]_vars

\* C22 (amended): when a press with a different button mask forces finalize,
\* the emitted press and press-activate carry the newly arrived press as their
\* source event, not the buffered first press, together with the first
\* press's button mask.
C22_Source ==
    [][DifferingPress
         => /\ \E i \in (Len(log) + 1)..Len(log') : log'[i].name = MOUSE_DOWN
            /\ \A i \in (Len(log) + 1)..Len(log') :
                 log'[i].name \in {MOUSE_DOWN, MOUSE_DOWN_ACTIVATE}
                    => /\ log'[i].event = count.press'
                       /\ log'[i].event # doubleClickState.mouseDownEvent.id
                       /\ log'[i].button = doubleClickState.mouseDownEvent.buttons
                       /\ log'[i].button # held']_vars

\* A second button joined a held first button: press and press-activate were
\* emitted with the second press as source and the first button as mask.
C22_Witness ==
    /\ count.merged = 1
    /\ held = 3
    /\ Names = <<MOUSE_DOWN, MOUSE_DOWN_ACTIVATE>>
    /\ log[1].event = 2 /\ log[2].event = 2
    /\ log[1].button \in Buttons

\* ---- C23
\* C23: no semantic event is emitted while the decision timer is armed: a
\* step that leaves the timer armed emits nothing, a fresh press emits
\* nothing, and a step that emits leaves the timer disarmed, no decision
\* timer live and the buffered press and release null.
C23_Claim ==
    [][/\ doubleClickState'.doubleClickTimeout # 0 => log' = log
       /\ log' # log
            => /\ DecisionTimers' = {}
               /\ doubleClickState'.mouseDownEvent = NoEvent
               /\ doubleClickState'.mouseUpEvent = NoEvent]_vars

\* A fresh press, a move on the tolerance and a first release have all come
\* inside the window, and nothing was emitted.
C23_Witness ==
    /\ doubleClickState.doubleClickTimeout # 0
    /\ doubleClickState.mouseUpEvent # NoEvent
    /\ count.move = 1
    /\ count.last = 1
    /\ count.press = 1
    /\ log = <<>>

\* ---- C24
\* C24: every finalize leaves the suppression flag set; a set flag is cleared
\* only by a double-click notification or by a fresh press; and a fresh press
\* always leaves it clear.
C24_Claim ==
    [][/\ count.finalize' > count.finalize => doubleClickState'.ignoreDoubleClick
       /\ (doubleClickState.ignoreDoubleClick /\ ~doubleClickState'.ignoreDoubleClick)
            => (count.dbl' = count.dbl + 1 \/ FreshPress)
       /\ FreshPress => ~doubleClickState'.ignoreDoubleClick]_vars

\* The flag outlived the gesture that set it: the release came and the engine
\* was cleaned up, and no notification has arrived.
C24_Witness ==
    /\ doubleClickState.ignoreDoubleClick
    /\ count.finalize = 1
    /\ count.dbl = 0
    /\ held = 0
    /\ state = defaultState
    /\ LastEvent.name \in ClickOrUp

\* ---- C25
\* C25: a decision is pending wherever finalize can be invoked without a test
\* of the timer: the element's _onMouseMove listener is registered only while
\* the decision timer is armed and a press and a release are buffered, and an
\* armed handle always belongs to a live decision timer.
C25_Claim ==
    /\ listeners.elOnMouseMove
         => /\ doubleClickState.doubleClickTimeout # 0
            /\ doubleClickState.mouseDownEvent # NoEvent
            /\ doubleClickState.mouseUpEvent # NoEvent
    /\ \A tm \in DecisionTimers :
         /\ tm.id = doubleClickState.doubleClickTimeout
         /\ doubleClickState.mouseDownEvent # NoEvent

\* The _onMouseMove listener is registered for the second time.
C25_Witness ==
    /\ listeners.elOnMouseMove
    /\ count.finalize = 1
    /\ count.release = 2
    /\ doubleClickState.mouseUpEvent.id = 2

\* ---- C26
\* The step in which a first release arrives while the decision timer is armed.
FirstRelease ==
    /\ count.release' = count.release + 1
    /\ listeners.docMouseUp
    /\ doubleClickState.doubleClickTimeout # 0
    /\ doubleClickState.mouseUpEvent = NoEvent

\* C26 (as stated, for runs without double-click notifications): a first
\* release during an armed decision timer is only buffered: nothing is
\* emitted, the timer stays armed, the click-disqualification timer is
\* cancelled and the drag listener removed; its classification is fixed from
\* then on: isClickEvent does not change while it is buffered, and the replay
\* names it by that value.
C26_Claim ==
    [][count.dbl = 0
         => /\ FirstRelease
                 => /\ log' = log
                    /\ doubleClickState'.doubleClickTimeout = doubleClickState.doubleClickTimeout
                    /\ DecisionTimers' = DecisionTimers
                    /\ doubleClickState'.mouseUpEvent.id = count.release'
                    /\ \A tm \in timers' : tm.id # state.preventClickTimeout
                    /\ ~listeners'.docOnMouseDrag
            /\ (doubleClickState.mouseUpEvent # NoEvent
                  /\ doubleClickState'.mouseUpEvent # NoEvent)
                 => state'.isClickEvent = state.isClickEvent
            /\ (count.finalize' > count.finalize
                  /\ doubleClickState.mouseUpEvent # NoEvent)
                 => log'[Len(log')].name = ClickEventName(state.isClickEvent)]_vars

\* ---- C27
\* The step in which a move arrives while the decision timer is armed.
MoveWhileArmed ==
    /\ count.move' = count.move + 1
    /\ doubleClickState.doubleClickTimeout # 0

\* C27: while the decision timer is armed a move within the tolerance of the
\* last recorded point changes no state, before and after the first release,
\* so the last recorded point stays the press position; and a move beyond the
\* tolerance of it forces finalize, whatever moves came before.
C27_Claim ==
    [][/\ (MoveWhileArmed /\ count'.last < 2)
            => UNCHANGED <<state, doubleClickState, timers, listeners, log>>
       /\ (MoveWhileArmed /\ count'.last = 2)
            => count.finalize' = count.finalize + 1
       /\ doubleClickState'.doubleClickTimeout # 0
            => state'.lastPoints = state'.startPoints]_vars

\* A first move within the tolerance emitted nothing, and a second move
\* beyond the tolerance of the press position forced the finalize, before any
\* timer could fire.
C27_Witness ==
    /\ elapsed = 0
    /\ count.move = 2
    /\ count.release = 0
    /\ count.finalize = 1
    /\ Count(MOUSE_DRAG) = 1
    /\ Abs(state.lastPoints[1] - state.startPoints[1])
         + Abs(state.lastPoints[2] - state.startPoints[2]) > DOUBLE_CLICK_DRAG_TOLERANCE

\* ---- C28
Resolved ==
    /\ doubleClickState.doubleClickTimeout = 0
    /\ doubleClickState.mouseDownEvent = NoEvent
    /\ doubleClickState.mouseUpEvent = NoEvent

\* C28: when time passes and due timers fire, every armed decision timer
\* leads, for any further input or none, to a state in which the timer is
\* disarmed and the buffered press and release are null.
C28_Claim == (doubleClickState.doubleClickTimeout # 0) ~> Resolved

\* A decision resolved by the expiry alone: the button is still held and no
\* other input came.
C28_Witness ==
    /\ Resolved
    /\ count.press = 1
    /\ count.release = 0
    /\ count.move = 0
    /\ count.dbl = 0
    /\ count.finalize = 1
    /\ held = 1
    /\ elapsed = DOUBLE_CLICK_TOLERANCE_MS

====
